---- MODULE Spec2Model ----
(***************************************************************************)
(* A model of the two-list todo tracker: the interactive loop of           *)
(* src/src/app.rs (App), its key decoder src/src/action.rs, the file and   *)
(* terminal helpers of src/src/helpers.rs, the screen guard, and the       *)
(* older entry point src/src/main.rs with src/src/state.rs (StateHandler). *)
(*                                                                         *)
(* Text is a sequence of Unicode scalar values (integers).  A file is a    *)
(* sequence of such values too, with 10 the line feed and 13 the carriage  *)
(* return; InvalidByte stands for a byte that is not valid UTF-8.          *)
(* Indexes are 0-based as in the code (At(s, i) is s[i] of the code).      *)
(***************************************************************************)
EXTENDS Integers, Sequences, FiniteSets, TLC

\* ---------------------------------------------------------------- bounds

\* Most items held by the two lists together.
MaxItems == 2
\* Most characters of one item.
MaxLen == 1
\* Most lines of a file, and most items of a document, that the persistence
\* checks enumerate.
MaxLines == 3
\* Most characters of a line that is laid out, and the widest pane.
MaxLineLen == 3
MaxWidth == 3
\* The widest and the tallest terminal a frame is drawn on.
MaxCols == 9
MaxRows == 2

\* ------------------------------------------------------------- constants

\* usize::MAX, the sentinel GotoEnd stores (TLC's integers are 32 bit).
UsizeMax == 2147483647

\* u16::MAX, and isize::MAX as a part of usize::MAX.
U16Max == 65535
IsizeMax == UsizeMax \div 2

\* A byte of the file that is not part of valid UTF-8.
InvalidByte == 255

\* globals.rs is not among the sources: two distinct literal prefixes.
TODO_PREFIX == <<84, 58>>
DONE_PREFIX == <<68, 58>>

LF == <<10>>

\* The characters the user types into an item: 'q' (one byte in UTF-8) and
\* U+00E9 (two bytes).
ItemChars == {113, 233}

\* ------------------------------------------------------------ sequences

Min(a, b) == IF a < b THEN a ELSE b
Max(a, b) == IF a > b THEN a ELSE b

At(s, i) == s[i + 1]

\* Vec::remove(i)
VecRemove(s, i) == SubSeq(s, 1, i) \o SubSeq(s, i + 2, Len(s))

\* Vec::insert(i, x)
VecInsert(s, i, x) == SubSeq(s, 1, i) \o <<x>> \o SubSeq(s, i + 1, Len(s))

\* A swap that copies item i over item j and forgets what item j was.
VecSwapOverwrites(s, i, j) == [s EXCEPT ![j + 1] = s[i + 1]]

\* Vec::swap(i, j)
VecSwap(s, i, j) ==
    [k \in 1..Len(s) |-> IF k = i + 1 THEN s[j + 1]
                         ELSE IF k = j + 1 THEN s[i + 1] ELSE s[k]]

\* A push that puts the item in front.
VecPushFront(s, x) == <<x>> \o s

\* Vec::push(x)
VecPush(s, x) == Append(s, x)

VecSet(s, i, x) == [s EXCEPT ![i + 1] = x]

IsPrefix(p, s) == Len(p) <= Len(s) /\ SubSeq(s, 1, Len(p)) = p

\* str::strip_prefix: the rest after the prefix (asked only when IsPrefix).
StripPrefix(p, s) == SubSeq(s, Len(p) + 1, Len(s))

\* char::len_utf8
LenUtf8(c) == IF c < 128 THEN 1 ELSE IF c < 2048 THEN 2 ELSE IF c < 65536 THEN 3 ELSE 4

RECURSIVE ByteLen(_)
\* String::len: the number of bytes of the UTF-8 encoding.
ByteLen(s) == IF s = <<>> THEN 0 ELSE LenUtf8(Head(s)) + ByteLen(Tail(s))

\* All sequences over S of length at most n.
SeqsUpTo(S, n) == UNION {[1..k -> S] : k \in 0..n}

Items == SeqsUpTo(ItemChars, MaxLen)

\* -------------------------------------------------------------- the file

NoFile == [kind |-> "absent", data |-> <<>>]
RegularFile(d) == [kind |-> "file", data |-> d]
Directory == [kind |-> "dir", data |-> <<>>]

RECURSIVE WriteLines(_, _)
\* The closure proc of save_to_file: writeln!(file, "{}{}", str_begin, s) per item.
WriteLines(strs, str_begin) ==
    IF strs = <<>> THEN <<>>
    ELSE str_begin \o Head(strs) \o LF \o WriteLines(Tail(strs), str_begin)

\* A save that never returns early.
SaveNeverSkips(f, t, d) == FALSE

\* The early return of save_to_file: nothing to save and no file at the path.
NothingToSave(f, t, d) == t = <<>> /\ d = <<>> /\ f.kind = "absent"

\* A save that writes every item with the todo prefix.
SaveAllAsTodos(f, t, d) ==
    IF NothingToSave(f, t, d) THEN f
    ELSE RegularFile(WriteLines(t, TODO_PREFIX) \o WriteLines(d, TODO_PREFIX))

\* What save_to_file leaves at the path when none of its calls fails.
save_to_file(f, t, d) ==
    IF NothingToSave(f, t, d) THEN f
    ELSE RegularFile(WriteLines(t, TODO_PREFIX) \o WriteLines(d, DONE_PREFIX))

\* The position of the first line feed of d, 0 when there is none.
FirstLF(d) ==
    IF \E k \in 1..Len(d) : d[k] = 10
    THEN CHOOSE k \in 1..Len(d) : d[k] = 10 /\ \A j \in 1..(k - 1) : d[j] # 10
    ELSE 0

\* BufRead::lines drops the "\n" that ends a line, and a "\r" right before it.
ChompCR(l) ==
    IF Len(l) > 0 /\ l[Len(l)] = 13 THEN SubSeq(l, 1, Len(l) - 1) ELSE l

RECURSIVE ReadLines(_)
\* BufRead::lines: the items the iterator yields, an item being Ok(text) or Err
\* (a line that is not valid UTF-8).  A last line without "\n" is yielded as is.
ReadLines(d) ==
    IF d = <<>> THEN <<>>
    ELSE LET k == FirstLF(d)
             raw == IF k = 0 THEN d ELSE SubSeq(d, 1, k - 1)
             rest == IF k = 0 THEN <<>> ELSE SubSeq(d, k + 1, Len(d))
             ok == \A j \in 1..Len(raw) : raw[j] # InvalidByte
             text == IF k = 0 THEN raw ELSE ChompCR(raw)
         IN  <<[ok |-> ok, text |-> IF ok THEN text ELSE <<>>]>> \o ReadLines(rest)

RECURSIVE MapWhileOk(_)
\* Iterator::map_while(Result::ok): the Ok items before the first Err.
MapWhileOk(rs) ==
    IF rs = <<>> \/ ~Head(rs).ok THEN <<>>
    ELSE <<Head(rs).text>> \o MapWhileOk(Tail(rs))

RECURSIVE ParseLines(_, _, _)
\* The for loop of get_todos_dones over the lines it was handed.
ParseLines(ls, t, d) ==
    IF ls = <<>> THEN [ok |-> TRUE, todos |-> t, dones |-> d]
    ELSE IF IsPrefix(TODO_PREFIX, Head(ls))
         THEN ParseLines(Tail(ls), VecPush(t, StripPrefix(TODO_PREFIX, Head(ls))), d)
    ELSE IF IsPrefix(DONE_PREFIX, Head(ls))
         THEN ParseLines(Tail(ls), t, VecPush(d, StripPrefix(DONE_PREFIX, Head(ls))))
    ELSE [ok |-> FALSE, todos |-> <<>>, dones |-> <<>>]

\* get_todos_dones: ok is FALSE for Err, else the two lists.
get_todos_dones(f) ==
    IF f.kind = "dir" THEN [ok |-> FALSE, todos |-> <<>>, dones |-> <<>>]
    ELSE IF f.kind = "absent" THEN [ok |-> TRUE, todos |-> <<>>, dones |-> <<>>]
    ELSE ParseLines(MapWhileOk(ReadLines(f.data)), <<>>, <<>>)

\* ------------------------------------------------------------ key events

\* crossterm's KeyEvent: a code (k, and c for Char) with the modifiers.
Key(k) == [k |-> k, c |-> 0, shift |-> FALSE, ctrl |-> FALSE]
Char(c) == [k |-> "Char", c |-> c, shift |-> FALSE, ctrl |-> FALSE]
Shift(ev) == [ev EXCEPT !.shift = TRUE]
Ctrl(ev) == [ev EXCEPT !.ctrl = TRUE]

Act(a, arg) == [a |-> a, arg |-> arg]
NoAction == Act("Err", "")

\* impl TryFrom<KeyEvent> for Action: the arms in the order the match tries them.
ActionTryFrom(event) ==
    LET code == event.k
        ch == event.c
        isChar(x) == code = "Char" /\ ch = x
    IN  IF code = "Enter" THEN Act("Enter", "")
        ELSE IF code = "Tab" THEN Act("SwitchTab", "Toggle")
        ELSE IF code = "F1" THEN Act("ShowHelp", "")
        ELSE IF isChar(108) THEN Act("SwitchTab", "Right")
        ELSE IF isChar(104) THEN Act("SwitchTab", "Left")
        ELSE IF code = "Right" /\ ~event.shift THEN Act("SwitchTab", "Right")
        ELSE IF code = "Left" /\ ~event.shift THEN Act("SwitchTab", "Left")
        ELSE IF isChar(110) THEN Act("ShowNumber", "")
        ELSE IF isChar(105) THEN Act("Insert", "Up")
        ELSE IF isChar(111) THEN Act("Insert", "Down")
        ELSE IF isChar(101) THEN Act("Edit", "")
        ELSE IF isChar(107) THEN Act("MoveCursor", "Up")
        ELSE IF isChar(106) THEN Act("MoveCursor", "Down")
        ELSE IF code = "Up" /\ ~event.shift THEN Act("MoveCursor", "Up")
        ELSE IF code = "Down" /\ ~event.shift THEN Act("MoveCursor", "Down")
        ELSE IF isChar(75) THEN Act("MoveItem", "Up")
        ELSE IF isChar(74) THEN Act("MoveItem", "Down")
        ELSE IF code = "Up" /\ event.shift THEN Act("MoveItem", "Up")
        ELSE IF code = "Down" /\ event.shift THEN Act("MoveItem", "Down")
        ELSE IF isChar(103) THEN Act("GotoBegin", "")
        ELSE IF isChar(71) THEN Act("GotoEnd", "")
        ELSE IF isChar(100) THEN Act("Delete", "")
        ELSE IF isChar(113) THEN Act("SaveQuit", "")
        ELSE IF isChar(81) THEN Act("NoSaveQuit", "")
        ELSE IF isChar(99) /\ event.ctrl THEN Act("NoSaveQuit", "")
        ELSE NoAction

InsAct(a, c) == [a |-> a, c |-> c]

\* impl TryFrom<KeyEvent> for InsertAction
InsertActionTryFrom(event) ==
    IF event.k = "Char" THEN InsAct("Char", event.c)
    ELSE IF event.k = "Backspace" THEN InsAct("DeleteChar", 0)
    ELSE IF event.k = "Enter" THEN InsAct("Enter", 0)
    ELSE IF event.k = "Esc" THEN InsAct("Cancel", 0)
    ELSE InsAct("Err", 0)

\* get_key_event hands on event.code alone; the dispatcher sees a key event
\* built from that code, with no modifier.
get_key_event(raw) == [raw EXCEPT !.shift = FALSE, !.ctrl = FALSE]

\* The keys pressed while the mode is Normal.
NormalKeys ==
    {Key("Enter"), Key("Tab"), Key("F1"), Key("Esc"), Key("Backspace"),
     Key("Left"), Key("Right"), Key("Up"), Key("Down"),
     Shift(Key("Left")), Shift(Key("Right")), Shift(Key("Up")), Shift(Key("Down")),
     Ctrl(Char(99)), Char(99), Char(120)}
    \cup {Char(c) : c \in {108, 104, 110, 105, 111, 101, 107, 106, 75, 74,
                           103, 71, 100, 113, 81}}

\* The keys pressed while the help screen is shown.
HelpKeys ==
    {Char(113), Char(81), Ctrl(Char(99)), Key("Enter"), Key("F1"), Key("Esc"),
     Char(100), Char(120)}

\* The keys pressed while the mode is Insert.
InsertKeys ==
    {Char(c) : c \in ItemChars}
    \cup {Key("Backspace"), Key("Enter"), Key("Esc"), Key("Tab"), Key("F1"), Key("Up")}

\* The keys pressed in the mode md.
KeysIn(md) ==
    IF md.m = "Insert" THEN InsertKeys
    ELSE IF md.m = "Help" THEN HelpKeys
    ELSE NormalKeys

\* ----------------------------------------------------------------- state

VARIABLES
    todos,      \* App.todos: the todo items, in order
    dones,      \* App.dones
    todos_idx,  \* App.todos_idx: the cursor of the todo list
    dones_idx,  \* App.dones_idx
    curr_tab,   \* App.curr_tab: "Todos" or "Dones"
    mode,       \* App.mode (insert_mode of the older entry point)
    pc,         \* where the process is: see below
    file,       \* what is at the document path
    term,       \* the terminal: alternate screen entered, raw mode enabled
    file0,      \* history: what was at the path when the process started
    pre         \* history: the action just handled and the state before it

vars == <<todos, dones, todos_idx, dones_idx, curr_tab, mode, pc, file, term, file0, pre>>

(* pc: "new"   before the document is loaded
       "run"   loaded, before the main loop
       "top"   at the top of the loop body (before the clamp pass of App)
       "frame" the frame is drawn and the loop waits for one input event
       "exit_ok" / "exit_err" / "exit_panic": the process has ended with
       status 0, with an error returned from main, or by a panic.
       "saved" / "loaded": the ends of the persistence checks below.       *)

Normal == [m |-> "Normal", origin |-> "None", snap |-> <<>>]
InsertNew == [m |-> "Insert", origin |-> "New", snap |-> <<>>]
InsertEdit(s) == [m |-> "Insert", origin |-> "Edit", snap |-> s]
Help == [m |-> "Help", origin |-> "None", snap |-> <<>>]

Cooked == [alt |-> FALSE, raw |-> FALSE]

\* No key: what the history holds of the key when none was recorded.
NoKey == Key("None")

NoSnap ==
    [tag |-> "none", edits |-> 0, todos |-> <<>>, dones |-> <<>>,
     todos_idx |-> 0, dones_idx |-> 0, curr_tab |-> "Todos", key |-> NoKey]
Tagged(tag) == [NoSnap EXCEPT !.tag = tag]
Snap(tag) ==
    [tag |-> tag, edits |-> 0, todos |-> todos, dones |-> dones,
     todos_idx |-> todos_idx, dones_idx |-> dones_idx, curr_tab |-> curr_tab,
     key |-> NoKey]

\* Tab::toggle
toggle(t) == IF t = "Todos" THEN "Dones" ELSE "Todos"

ActiveList == IF curr_tab = "Todos" THEN todos ELSE dones
ActiveIdx == IF curr_tab = "Todos" THEN todos_idx ELSE dones_idx

\* The match on curr_tab that picks the list and the index an operation writes.
SetActive(l, i) ==
    /\ todos' = IF curr_tab = "Todos" THEN l ELSE todos
    /\ dones' = IF curr_tab = "Dones" THEN l ELSE dones
    /\ todos_idx' = IF curr_tab = "Todos" THEN i ELSE todos_idx
    /\ dones_idx' = IF curr_tab = "Dones" THEN i ELSE dones_idx

\* --------------------------------------------------------- the terminal

\* init_scr, stdout_ok telling whether writes to stdout succeed: the first
\* failing call returns the error and the later calls are not made.
init_scr(t, stdout_ok) ==
    IF ~stdout_ok THEN [ok |-> FALSE, term |-> t]
    ELSE [ok |-> TRUE, term |-> [alt |-> TRUE, raw |-> TRUE]]

\* reset_scr: LeaveAlternateScreen is written to stdout; disable_raw_mode is
\* called only when that write succeeded.
reset_scr(t, stdout_ok) ==
    IF ~stdout_ok THEN [ok |-> FALSE, term |-> t]
    ELSE [ok |-> TRUE, term |-> Cooked]

\* impl Drop for ScreenGuard: the error of reset_scr is printed, not returned.
ScreenGuardDrop(t, stdout_ok) == reset_scr(t, stdout_ok).term

\* ------------------------------------------------- App: start and the loop

\* No clamp at all.
ClampNothing(idx, len) == idx

\* A clamp whose upper end is the length, not the last index.
ClampToLen(idx, len) == Min(Max(idx, 0), len)

\* usize::clamp(0, len.saturating_sub(1))
Clamp(idx, len) == Min(Max(idx, 0), Max(len - 1, 0))

\* App::new
AppNew ==
    /\ pc = "new"
    /\ LET r == get_todos_dones(file)
       IN  /\ todos' = r.todos
           /\ dones' = r.dones
           /\ pc' = IF r.ok THEN "run" ELSE "exit_err"
    /\ UNCHANGED <<todos_idx, dones_idx, curr_tab, mode, file, term, file0, pre>>

\* App::run entering main_loop: the guard is made, then init_scr; its error
\* leaves main_loop (the guard is dropped) and run returns it.
EnterMainLoop ==
    /\ pc = "run"
    /\ \E stdout_ok \in BOOLEAN :
         LET r == init_scr(term, stdout_ok)
         IN  IF r.ok THEN pc' = "top" /\ term' = r.term
             ELSE pc' = "exit_err" /\ term' = ScreenGuardDrop(r.term, stdout_ok)
    /\ UNCHANGED <<todos, dones, todos_idx, dones_idx, curr_tab, mode, file, file0, pre>>

\* History: pre is kept over the frames of an insertion or an edit that is not
\* yet committed or cancelled, and after a MoveItem(Down) for the move that may
\* follow; otherwise it is forgotten when the next frame begins.
InProgress == mode.m = "Insert" \/ pre.tag = "MoveItemDown"

\* App::clamp_indexes, the first statement of the loop body
ClampIndexes ==
    /\ pc = "top"
    /\ todos_idx' = Clamp(todos_idx, Len(todos))
    /\ dones_idx' = Clamp(dones_idx, Len(dones))
    /\ pc' = "frame"
    /\ pre' = IF InProgress THEN [pre EXCEPT !.key = NoKey] ELSE NoSnap
    /\ UNCHANGED <<todos, dones, curr_tab, mode, file, term, file0>>

\* A leave that saves on NoSaveQuit as it does on SaveQuit.
LeaveSavingOnNoSave(e, stdout_ok, create_ok) ==
    /\ term' = ScreenGuardDrop(term, stdout_ok)
    /\ IF e \in {"BREAK", "NO_SAVE"}
       THEN IF NothingToSave(file, todos, dones)
            THEN pc' = "exit_ok" /\ file' = file
            ELSE IF create_ok
                 THEN /\ file' = save_to_file(file, todos, dones)
                      /\ pc' = IF stdout_ok THEN "exit_ok" ELSE "exit_panic"
                 ELSE pc' = "exit_err" /\ file' = file
       ELSE /\ file' = file
            /\ pc' = IF e = "panic" THEN "exit_panic" ELSE "exit_err"

\* main_loop is left with the error e ("BREAK", "NO_SAVE", "io") or by a panic:
\* the guard is dropped, then App::run saves unless told otherwise.  create_ok
\* tells whether File::create succeeds; println! panics when stdout is broken.
LeaveMainLoop(e, stdout_ok, create_ok) ==
    /\ term' = ScreenGuardDrop(term, stdout_ok)
    /\ IF e = "BREAK"
       THEN IF NothingToSave(file, todos, dones)
            THEN pc' = "exit_ok" /\ file' = file
            ELSE IF create_ok
                 THEN /\ file' = save_to_file(file, todos, dones)
                      /\ pc' = IF stdout_ok THEN "exit_ok" ELSE "exit_panic"
                 ELSE pc' = "exit_err" /\ file' = file
       ELSE /\ file' = file
            /\ pc' = CASE e = "NO_SAVE" -> "exit_ok"
                       [] e = "panic" -> "exit_panic"
                       [] OTHER -> "exit_err"

\* The process ends without having saved: what it held in memory is gone.
MemoryDropped ==
    /\ todos' = <<>>
    /\ dones' = <<>>
    /\ todos_idx' = 0
    /\ dones_idx' = 0
    /\ curr_tab' = "Todos"
    /\ mode' = Normal
    /\ pre' = NoSnap

\* handle_term_size, clear_scr, the draw calls, goto or get_key_event returns an
\* error, which main_loop propagates.
TerminalIoFails ==
    /\ pc = "frame"
    /\ \E stdout_ok \in BOOLEAN : LeaveMainLoop("io", stdout_ok, TRUE)
    /\ MemoryDropped
    /\ UNCHANGED file0

\* get_key_event returns None: the poll timed out, or the event was no key.
PollNone ==
    /\ pc = "frame"
    /\ pc' = "top"
    /\ UNCHANGED <<todos, dones, todos_idx, dones_idx, curr_tab, mode, file, term, file0, pre>>

\* What the decoders make of the keys that can arrive.
NormalActions == {ActionTryFrom(get_key_event(raw)) : raw \in NormalKeys}
InsertActions == {InsertActionTryFrom(get_key_event(raw)) : raw \in InsertKeys}

\* An unmapped key that ends whatever mode the program is in.
IgnoredKeyLeavesMode ==
    /\ pc = "frame"
    /\ \E raw \in KeysIn(mode) :
         /\ IF mode.m = "Insert"
            THEN InsertActionTryFrom(get_key_event(raw)) = InsAct("Err", 0)
            ELSE ActionTryFrom(get_key_event(raw)) = NoAction
         /\ pre' = [pre EXCEPT !.key = raw]
    /\ pc' = "top"
    /\ mode' = Normal
    /\ UNCHANGED <<todos, dones, todos_idx, dones_idx, curr_tab, file, term, file0>>

\* A key arrives that the decoder of the current mode does not map: neither
\* `if let Ok(action)` of the loop is taken.  The history records the key.
IgnoredKey ==
    /\ pc = "frame"
    /\ \E raw \in KeysIn(mode) :
         /\ IF mode.m = "Insert"
            THEN InsertActionTryFrom(get_key_event(raw)) = InsAct("Err", 0)
            ELSE ActionTryFrom(get_key_event(raw)) = NoAction
         /\ pre' = [pre EXCEPT !.key = raw]
    /\ pc' = "top"
    /\ UNCHANGED <<todos, dones, todos_idx, dones_idx, curr_tab, mode, file, term, file0>>

\* A key arrives in Normal mode and decodes to the action a.
Arrives(a) ==
    /\ pc = "frame"
    /\ mode.m = "Normal"
    /\ a \in NormalActions

\* The key raw arrives in Normal mode and decodes to the action a.
ArrivesAs(raw, a) ==
    /\ Arrives(a)
    /\ raw \in NormalKeys
    /\ ActionTryFrom(get_key_event(raw)) = a

\* A panic unwinds main_loop: the guard is dropped and the process ends.
Panics ==
    /\ \E stdout_ok \in BOOLEAN : LeaveMainLoop("panic", stdout_ok, TRUE)
    /\ MemoryDropped
    /\ UNCHANGED file0

\* The handler returned: the loop goes round.
Continue == pc' = "top" /\ UNCHANGED <<file, term, file0>>

\* ------------------------------------------- App::execute_action (Normal)

\* Action::Enter => handle_enter_press
ExecEnter ==
    /\ Arrives(Act("Enter", ""))
    /\ IF ActiveList # <<>> /\ ActiveIdx >= Len(ActiveList)
       THEN Panics      \* Vec::remove out of bounds
       ELSE /\ IF ActiveList = <<>>
               THEN UNCHANGED <<todos, dones>>
               ELSE IF curr_tab = "Todos"
                    THEN /\ todos' = VecRemove(todos, todos_idx)
                         /\ dones' = VecPush(dones, At(todos, todos_idx))
                    ELSE /\ dones' = VecRemove(dones, dones_idx)
                         /\ todos' = VecPush(todos, At(dones, dones_idx))
            /\ UNCHANGED <<todos_idx, dones_idx, curr_tab, mode>>
            /\ pre' = Snap("Enter")
            /\ Continue

\* Action::SwitchTab => self.curr_tab = self.curr_tab.toggle(), whatever
\* TabAction the decoder attached.
SwitchTabTo(tab, arg) == toggle(tab)

ExecSwitchTab ==
    /\ \E arg \in {"Toggle", "Left", "Right"}, raw \in NormalKeys :
         /\ ArrivesAs(raw, Act("SwitchTab", arg))
         /\ curr_tab' = SwitchTabTo(curr_tab, arg)
         /\ pre' = [Snap(arg) EXCEPT !.key = raw]
    /\ UNCHANGED <<todos, dones, todos_idx, dones_idx, mode>>
    /\ Continue

\* An index that is the cursor whatever the direction.
InsertIdxIgnoresDirection(direction, idx, len) == Min(Max(idx, 0), len)

\* The index start_insert_mode inserts at.
InsertIdx(direction, idx, len) ==
    Min(Max(IF direction = "Up" THEN idx ELSE idx + 1, 0), len)

\* Action::Insert(direction) => start_insert_mode
ExecInsert ==
    /\ Len(todos) + Len(dones) < MaxItems
    /\ \E direction \in {"Up", "Down"} :
         /\ Arrives(Act("Insert", direction))
         /\ LET insert_idx == InsertIdx(direction, ActiveIdx, Len(ActiveList))
            IN  SetActive(VecInsert(ActiveList, insert_idx, <<>>), insert_idx)
         /\ pre' = Snap(IF direction = "Up" THEN "InsertAbove" ELSE "InsertBelow")
    /\ mode' = InsertNew
    /\ UNCHANGED curr_tab
    /\ Continue

\* App::get_current_buffer: Vec::get, an Option
HasCurrentBuffer == ActiveIdx < Len(ActiveList)

\* An Edit that enters Insert mode even when there is no item at the cursor.
ExecEditAlwaysEnters ==
    /\ Arrives(Act("Edit", ""))
    /\ mode' = IF HasCurrentBuffer THEN InsertEdit(At(ActiveList, ActiveIdx))
               ELSE InsertEdit(<<>>)
    /\ pre' = Snap("Edit")
    /\ UNCHANGED <<todos, dones, todos_idx, dones_idx, curr_tab>>
    /\ Continue

\* Action::Edit => start_edit_mode
ExecEdit ==
    /\ Arrives(Act("Edit", ""))
    /\ mode' = IF HasCurrentBuffer THEN InsertEdit(At(ActiveList, ActiveIdx)) ELSE mode
    /\ pre' = Snap("Edit")
    /\ UNCHANGED <<todos, dones, todos_idx, dones_idx, curr_tab>>
    /\ Continue

\* Action::MoveCursor(direction) => handle_cursor_move.  idx + 1 at usize::MAX
\* panics in a build with overflow checks and wraps to 0 in one without.
ExecMoveCursor ==
    /\ \E direction \in {"Up", "Down"}, raw \in NormalKeys :
         /\ ArrivesAs(raw, Act("MoveCursor", direction))
         /\ \/ /\ direction = "Down" /\ ActiveIdx = UsizeMax
               /\ Panics
            \/ /\ LET idx == IF direction = "Up" THEN Max(ActiveIdx - 1, 0)
                             ELSE IF ActiveIdx = UsizeMax THEN 0 ELSE ActiveIdx + 1
                  IN  SetActive(ActiveList, idx)
               /\ pre' = [Snap(IF direction = "Up" THEN "MoveCursorUp"
                                 ELSE "MoveCursorDown") EXCEPT !.key = raw]
               /\ UNCHANGED <<curr_tab, mode>>
               /\ Continue

\* A move that swaps the items and leaves the cursor where it was.
MoveItemCursorStays(direction, vec, idx) ==
    IF vec = <<>> THEN [vec |-> vec, idx |-> idx]
    ELSE IF direction = "Down"
         THEN IF idx = Len(vec) - 1 THEN [vec |-> vec, idx |-> idx]
              ELSE [vec |-> VecSwap(vec, idx, idx + 1), idx |-> idx]
         ELSE IF idx = 0 THEN [vec |-> vec, idx |-> idx]
              ELSE [vec |-> VecSwap(vec, idx, idx - 1), idx |-> idx]

\* What handle_move_item leaves: the list and the index.
MoveItemResult(direction, vec, idx) ==
    IF vec = <<>> THEN [vec |-> vec, idx |-> idx]
    ELSE IF direction = "Down"
         THEN IF idx = Len(vec) - 1 THEN [vec |-> vec, idx |-> idx]
              ELSE [vec |-> VecSwap(vec, idx, idx + 1), idx |-> idx + 1]
         ELSE IF idx = 0 THEN [vec |-> vec, idx |-> idx]
              ELSE [vec |-> VecSwap(vec, idx, idx - 1), idx |-> idx - 1]

\* Action::MoveItem(direction) => handle_move_item
ExecMoveItem ==
    /\ \E direction \in {"Up", "Down"}, raw \in NormalKeys :
         /\ ArrivesAs(raw, Act("MoveItem", direction))
         /\ IF ActiveList # <<>> /\ ActiveIdx >= Len(ActiveList)
            THEN Panics      \* Vec::swap out of bounds
            ELSE /\ LET r == MoveItemResult(direction, ActiveList, ActiveIdx)
                    IN  SetActive(r.vec, r.idx)
                 /\ pre' = IF direction = "Up" /\ pre.tag = "MoveItemDown"
                           THEN [pre EXCEPT !.tag = "MoveItemDownUp", !.key = raw]
                           ELSE [Snap(IF direction = "Up" THEN "MoveItemUp"
                                      ELSE "MoveItemDown") EXCEPT !.key = raw]
                 /\ UNCHANGED <<curr_tab, mode>>
                 /\ Continue

\* A Goto with the two positions exchanged.
ExecGotoExchanged ==
    /\ \E a \in {"GotoBegin", "GotoEnd"} :
         /\ Arrives(Act(a, ""))
         /\ SetActive(ActiveList, IF a = "GotoBegin" THEN UsizeMax ELSE 0)
         /\ pre' = Snap(a)
    /\ UNCHANGED <<curr_tab, mode>>
    /\ Continue

\* Action::GotoBegin => goto_list_pos(0), Action::GotoEnd => goto_list_pos(usize::MAX)
ExecGoto ==
    /\ \E a \in {"GotoBegin", "GotoEnd"} :
         /\ Arrives(Act(a, ""))
         /\ SetActive(ActiveList, IF a = "GotoBegin" THEN 0 ELSE UsizeMax)
         /\ pre' = Snap(a)
    /\ UNCHANGED <<curr_tab, mode>>
    /\ Continue

\* A delete that removes the first item, wherever the cursor is.
DeleteRemovesFirst(vec, idx) == IF vec = <<>> THEN vec ELSE Tail(vec)

\* What handle_delete leaves of the list (asked only when the index is in it
\* or the list is empty).
DeleteResult(vec, idx) == IF vec = <<>> THEN vec ELSE VecRemove(vec, idx)

\* Action::Delete => handle_delete
ExecDelete ==
    /\ Arrives(Act("Delete", ""))
    /\ IF ActiveList # <<>> /\ ActiveIdx >= Len(ActiveList)
       THEN Panics      \* Vec::remove out of bounds
       ELSE /\ SetActive(DeleteResult(ActiveList, ActiveIdx), ActiveIdx)
            /\ pre' = Snap("Delete")
            /\ UNCHANGED <<curr_tab, mode>>
            /\ Continue

\* Action::SaveQuit => bail!(BREAK)
ExecSaveQuit ==
    /\ Arrives(Act("SaveQuit", ""))
    /\ \E stdout_ok \in BOOLEAN, create_ok \in BOOLEAN :
         LeaveMainLoop("BREAK", stdout_ok, create_ok)
    /\ pre' = Snap("SaveQuit")
    /\ UNCHANGED <<todos, dones, todos_idx, dones_idx, curr_tab, mode, file0>>

\* Action::NoSaveQuit => bail!(NO_SAVE)
ExecNoSaveQuit ==
    /\ Arrives(Act("NoSaveQuit", ""))
    /\ \E stdout_ok \in BOOLEAN : LeaveMainLoop("NO_SAVE", stdout_ok, TRUE)
    /\ pre' = Snap("NoSaveQuit")
    /\ UNCHANGED <<todos, dones, todos_idx, dones_idx, curr_tab, mode, file0>>

\* Action::ShowHelp => self.mode = Mode::Help
ExecShowHelp ==
    /\ Arrives(Act("ShowHelp", ""))
    /\ mode' = Help
    /\ pre' = Snap("ShowHelp")
    /\ UNCHANGED <<todos, dones, todos_idx, dones_idx, curr_tab>>
    /\ Continue

\* Action::ShowNumber has no arm in App::execute_action; the flag it toggles
\* only changes how a frame is drawn, which is not part of this state.
ExecShowNumber ==
    /\ Arrives(Act("ShowNumber", ""))
    /\ pre' = Snap("ShowNumber")
    /\ UNCHANGED <<todos, dones, todos_idx, dones_idx, curr_tab, mode>>
    /\ Continue

\* ------------------------------------------------ App::handle_insert_mode

\* A key arrives in Insert mode and decodes to the insert action a.
ArrivesInsert(a) ==
    /\ pc = "frame"
    /\ mode.m = "Insert"
    /\ a \in InsertActions

\* InsertAction::Enter => disable_insert_mode
InsertEnter ==
    /\ ArrivesInsert(InsAct("Enter", 0))
    /\ IF ~HasCurrentBuffer
       THEN Panics      \* get_mut(idx).unwrap()
       ELSE /\ mode' = Normal
            /\ pre' = [Tagged("Commit") EXCEPT !.key = Key("Enter")]
            /\ UNCHANGED <<todos, dones, todos_idx, dones_idx, curr_tab>>
            /\ Continue

\* A cancel that keeps the item a New insertion added.
CancelKeepsInserted(md, vec, idx) ==
    IF md.origin = "Edit" THEN VecSet(vec, idx, md.snap) ELSE vec

\* A cancel that does not put the snapshot of an Edit back.
CancelKeepsEdits(md, vec, idx) ==
    IF md.origin = "Edit" THEN vec ELSE DeleteResult(vec, idx)

\* The list InsertAction::Cancel leaves: the snapshot put back (Edit), or the
\* item at the cursor deleted by handle_delete (New).
CancelResult(md, vec, idx) ==
    IF md.origin = "Edit" THEN VecSet(vec, idx, md.snap) ELSE DeleteResult(vec, idx)

\* InsertAction::Cancel
InsertCancel ==
    /\ ArrivesInsert(InsAct("Cancel", 0))
    /\ IF ~HasCurrentBuffer
       THEN Panics
       ELSE /\ SetActive(CancelResult(mode, ActiveList, ActiveIdx), ActiveIdx)
            /\ mode' = Normal
            /\ pre' = [pre EXCEPT !.tag = IF mode.origin = "Edit" THEN "CancelEdit"
                                          ELSE "CancelNew",
                                   !.key = Key("Esc")]
            /\ UNCHANGED curr_tab
            /\ Continue

\* InsertAction::Char(c) => buf.push(c), for the key that carries c
TypeChar(c) ==
    /\ pc = "frame"
    /\ mode.m = "Insert"
    /\ InsertActionTryFrom(get_key_event(Char(c))) = InsAct("Char", c)
    /\ IF ~HasCurrentBuffer
       THEN Panics
       ELSE /\ SetActive(VecSet(ActiveList, ActiveIdx,
                                Append(At(ActiveList, ActiveIdx), c)), ActiveIdx)
            /\ pre' = [pre EXCEPT !.edits = Min(@ + 1, 2), !.key = Char(c)]
            /\ UNCHANGED <<curr_tab, mode>>
            /\ Continue

\* A character key arrives in Insert mode (buffers are kept within MaxLen).
InsertChar ==
    \E c \in ItemChars :
        /\ HasCurrentBuffer => Len(At(ActiveList, ActiveIdx)) < MaxLen
        /\ TypeChar(c)

\* String::remove(i) panics unless byte i starts a character; buf.len() - 1 does
\* exactly when the last character is one byte long.
RemoveLastPanics(buf) == buf # <<>> /\ LenUtf8(buf[Len(buf)]) # 1

\* What InsertAction::DeleteChar leaves of the buffer when it does not panic.
DeleteCharResult(buf) == IF buf = <<>> THEN buf ELSE SubSeq(buf, 1, Len(buf) - 1)

\* InsertAction::DeleteChar
InsertDeleteChar ==
    /\ ArrivesInsert(InsAct("DeleteChar", 0))
    /\ IF ~HasCurrentBuffer \/ RemoveLastPanics(At(ActiveList, ActiveIdx))
       THEN Panics
       ELSE /\ SetActive(VecSet(ActiveList, ActiveIdx,
                                DeleteCharResult(At(ActiveList, ActiveIdx))), ActiveIdx)
            /\ pre' = [pre EXCEPT !.edits = Min(@ + 1, 2), !.key = Key("Backspace")]
            /\ UNCHANGED <<curr_tab, mode>>
            /\ Continue

\* ---------------------------------------------------- App::handle_help_mode

\* A key that decodes to an action arrives in Help mode.
HelpKey ==
    /\ pc = "frame"
    /\ mode.m = "Help"
    /\ \E raw \in HelpKeys :
         LET a == ActionTryFrom(get_key_event(raw))
         IN  /\ a # NoAction
             /\ mode' = IF a.a \in {"SaveQuit", "NoSaveQuit"} THEN Normal ELSE mode
             /\ pre' = [Snap(IF a.a \in {"SaveQuit", "NoSaveQuit"} THEN "HelpQuit"
                             ELSE "HelpOther") EXCEPT !.key = raw]
    /\ UNCHANGED <<todos, dones, todos_idx, dones_idx, curr_tab>>
    /\ Continue

\* ------------------------------------------------------ the App program

\* The documents the files at the path hold when the process starts.
InitFiles ==
    {NoFile, Directory, RegularFile(<<>>),
     RegularFile(TODO_PREFIX \o <<113>> \o LF \o DONE_PREFIX \o <<233>> \o LF),
     RegularFile(<<120>> \o LF)}

Init ==
    /\ file \in InitFiles
    /\ file0 = file
    /\ todos = <<>>
    /\ dones = <<>>
    /\ todos_idx = 0
    /\ dones_idx = 0
    /\ curr_tab = "Todos"
    /\ mode = Normal
    /\ pc = "new"
    /\ term = Cooked
    /\ pre = NoSnap

Next ==
    \/ AppNew
    \/ EnterMainLoop
    \/ ClampIndexes
    \/ TerminalIoFails
    \/ PollNone
    \/ IgnoredKey
    \/ ExecEnter
    \/ ExecSwitchTab
    \/ ExecInsert
    \/ ExecEdit
    \/ ExecMoveCursor
    \/ ExecMoveItem
    \/ ExecGoto
    \/ ExecDelete
    \/ ExecSaveQuit
    \/ ExecNoSaveQuit
    \/ ExecShowHelp
    \/ ExecShowNumber
    \/ InsertEnter
    \/ InsertCancel
    \/ InsertChar
    \/ InsertDeleteChar
    \/ HelpKey

Spec == Init /\ [][Next]_vars

\* ------------------------------------- one session of App, key by key

\* "buy milk", and other texts a session may type.
BuyMilk == <<98, 117, 121, 32, 109, 105, 108, 107>>
ScenarioTexts ==
    {BuyMilk,
     <<99, 97, 108, 108, 32, 109, 111, 109>>,       \* "call mom"
     <<102, 105, 120, 32, 98, 105, 107, 101>>,      \* "fix bike"
     <<112, 97, 121, 32, 114, 101, 110, 116>>}      \* "pay rent"

\* The session starts with no file at the path.
InitScenario == Init /\ file = NoFile

\* 'o' is pressed on the empty Todos list: Insert(Below).
ScenarioInsert ==
    /\ todos = <<>>
    /\ dones = <<>>
    /\ ExecInsert
    /\ pre'.tag = "InsertBelow"

\* The next character of one of the texts is typed.
ScenarioChar ==
    /\ HasCurrentBuffer
    /\ \E t \in ScenarioTexts, k \in 1..Len(BuyMilk) :
         /\ k <= Len(t)
         /\ At(ActiveList, ActiveIdx) = SubSeq(t, 1, k - 1)
         /\ TypeChar(t[k])

\* Enter is pressed in Insert mode once the text is typed: the commit.
ScenarioCommit ==
    /\ HasCurrentBuffer
    /\ At(ActiveList, ActiveIdx) \in ScenarioTexts
    /\ InsertEnter

\* Enter is pressed in Normal mode after the commit: the transfer.
ScenarioTransfer ==
    /\ todos # <<>>
    /\ dones = <<>>
    /\ ExecEnter

\* 'q' is pressed after the transfer: SaveQuit.
ScenarioSaveQuit ==
    /\ dones # <<>>
    /\ ExecSaveQuit

NextScenario ==
    \/ AppNew
    \/ EnterMainLoop
    \/ ClampIndexes
    \/ TerminalIoFails
    \/ PollNone
    \/ ScenarioInsert
    \/ ScenarioChar
    \/ ScenarioCommit
    \/ ScenarioTransfer
    \/ ScenarioSaveQuit

SpecScenario == InitScenario /\ [][NextScenario]_vars

\* ------------------------------- main with StateHandler (main.rs, state.rs)

\* The key codes get_key_event hands to StateHandler::execute_action.
KeyCodes == {get_key_event(raw) : raw \in NormalKeys \cup InsertKeys}

\* main up to the load: a path that exists and is no file, or a document that
\* get_todos_dones rejects, ends the process with an error.
MainLoad ==
    /\ pc = "new"
    /\ LET r == get_todos_dones(file)
       IN  /\ todos' = IF file.kind = "dir" THEN <<>> ELSE r.todos
           /\ dones' = IF file.kind = "dir" THEN <<>> ELSE r.dones
           /\ pc' = IF file.kind # "dir" /\ r.ok THEN "run" ELSE "exit_err"
    /\ UNCHANGED <<todos_idx, dones_idx, curr_tab, mode, file, term, file0, pre>>

\* terminal::size()? and init_scr()?: an error of either returns from main
\* before the guard exists; after them the guard is made and the loop begins.
MainInitScr ==
    /\ pc = "run"
    /\ \E size_ok \in BOOLEAN, stdout_ok \in BOOLEAN :
         LET r == init_scr(term, stdout_ok)
         IN  IF size_ok /\ r.ok THEN pc' = "top" /\ term' = r.term
             ELSE pc' = "exit_err" /\ term' = term
    /\ UNCHANGED <<todos, dones, todos_idx, dones_idx, curr_tab, mode, file, file0, pre>>

\* The loop body up to the cursor placement: the frame is drawn as the state is,
\* with no clamp pass.
MainDraw ==
    /\ pc = "top"
    /\ pc' = "frame"
    /\ UNCHANGED <<todos, dones, todos_idx, dones_idx, curr_tab, mode, file, term, file0, pre>>

\* main is left by `return` or `?` (e is "NO_SAVE" or "io"), by a panic, or by
\* `break` ("BREAK"): reset_scr()? first, then the save if a list holds an item.
\* The guard is dropped whichever way main ends.
LeaveMain(e, stdout_ok, create_ok) ==
    /\ term' = ScreenGuardDrop(reset_scr(term, stdout_ok).term, stdout_ok)
    /\ IF e = "BREAK"
       THEN IF ~reset_scr(term, stdout_ok).ok
            THEN pc' = "exit_err" /\ file' = file
            ELSE IF todos = <<>> /\ dones = <<>>
                 THEN pc' = "exit_ok" /\ file' = file
                 ELSE IF create_ok
                      THEN pc' = "exit_ok" /\ file' = save_to_file(file, todos, dones)
                      ELSE pc' = "exit_err" /\ file' = file
       ELSE /\ file' = file
            /\ pc' = CASE e = "NO_SAVE" -> "exit_ok"
                       [] e = "panic" -> "exit_panic"
                       [] OTHER -> "exit_err"

\* handle_term_size, clear_scr, the draw calls, goto or get_key_event returns an
\* error, which main propagates.
MainTerminalIoFails ==
    /\ pc = "frame"
    /\ \E stdout_ok \in BOOLEAN : LeaveMain("io", stdout_ok, TRUE)
    /\ MemoryDropped
    /\ UNCHANGED file0

\* get_key_event returns None.
MainPollNone ==
    /\ pc = "frame"
    /\ pc' = "top"
    /\ UNCHANGED <<todos, dones, todos_idx, dones_idx, curr_tab, mode, file, term, file0, pre>>

\* A panic unwinds main: the guard is dropped and the process ends.
MainPanics ==
    /\ \E stdout_ok \in BOOLEAN : LeaveMain("panic", stdout_ok, TRUE)
    /\ MemoryDropped
    /\ UNCHANGED file0

\* The key code arrives while insert_mode is false.
StateArrives(code) ==
    /\ pc = "frame"
    /\ mode.m = "Normal"
    /\ code \in KeyCodes

\* The end of StateHandler::execute_action for the keys it handles: the lists
\* and indexes the handler left, then clamp_indexes.
StateClamped(t, d, ti, di) ==
    /\ todos' = t
    /\ dones' = d
    /\ todos_idx' = Clamp(ti, Len(t))
    /\ dones_idx' = Clamp(di, Len(d))

\* The handler left the active list as l and its index as i.
StateActiveClamped(l, i) ==
    IF curr_tab = "Todos" THEN StateClamped(l, dones, i, dones_idx)
    ELSE StateClamped(todos, l, todos_idx, i)

\* `_ => return Ok(())` of execute_action, `_ => {}` of handle_insert_mode
\* (which unwraps the buffer at the cursor before it looks at the key).
StateIgnoredKey ==
    /\ pc = "frame"
    /\ \E code \in KeyCodes :
         IF mode.m = "Insert"
         THEN /\ code \notin {Key("Enter"), Key("Esc"), Key("Backspace")}
              /\ code.k # "Char"
         ELSE code \notin {Key("Enter"), Key("Tab")}
                  \cup {Char(c) : c \in {105, 106, 107, 74, 75, 100, 113, 81}}
    /\ IF mode.m = "Insert" /\ ~HasCurrentBuffer
       THEN MainPanics
       ELSE /\ pc' = "top"
            /\ UNCHANGED <<todos, dones, todos_idx, dones_idx, curr_tab, mode, file,
                           term, file0, pre>>

\* KeyCode::Enter => handle_enter_press
StateEnter ==
    /\ StateArrives(Key("Enter"))
    /\ IF ActiveList # <<>> /\ ActiveIdx >= Len(ActiveList)
       THEN MainPanics       \* Vec::remove out of bounds
       ELSE /\ IF ActiveList = <<>>
               THEN StateClamped(todos, dones, todos_idx, dones_idx)
               ELSE IF curr_tab = "Todos"
                    THEN StateClamped(VecRemove(todos, todos_idx),
                                      VecPush(dones, At(todos, todos_idx)),
                                      todos_idx, dones_idx)
                    ELSE StateClamped(VecPush(todos, At(dones, dones_idx)),
                                      VecRemove(dones, dones_idx),
                                      todos_idx, dones_idx)
            /\ UNCHANGED <<curr_tab, mode, pre>>
            /\ Continue

\* KeyCode::Tab => *self.curr_tab = self.curr_tab.toggle()
StateTab ==
    /\ StateArrives(Key("Tab"))
    /\ curr_tab' = toggle(curr_tab)
    /\ StateClamped(todos, dones, todos_idx, dones_idx)
    /\ UNCHANGED <<mode, pre>>
    /\ Continue

\* KeyCode::Char('i') => start_insert_mode
StateStartInsert ==
    /\ Len(todos) + Len(dones) < MaxItems
    /\ StateArrives(Char(105))
    /\ IF ActiveIdx > Len(ActiveList)
       THEN MainPanics       \* Vec::insert out of bounds
       ELSE /\ StateActiveClamped(VecInsert(ActiveList, ActiveIdx, <<>>), ActiveIdx)
            /\ mode' = InsertNew
            /\ UNCHANGED <<curr_tab, pre>>
            /\ Continue

\* KeyCode::Char('j') / Char('k') => handle_cursor_move
StateCursorMove ==
    /\ \E direction \in {"Up", "Down"} :
         /\ StateArrives(Char(IF direction = "Up" THEN 107 ELSE 106))
         /\ StateActiveClamped(ActiveList,
                               IF direction = "Up" THEN Max(ActiveIdx - 1, 0)
                               ELSE ActiveIdx + 1)
    /\ UNCHANGED <<curr_tab, mode, pre>>
    /\ Continue

\* KeyCode::Char('J') / Char('K') => handle_move_item
StateMoveItem ==
    /\ \E direction \in {"Up", "Down"} :
         /\ StateArrives(Char(IF direction = "Up" THEN 75 ELSE 74))
         /\ IF ActiveList # <<>> /\ ActiveIdx >= Len(ActiveList)
            THEN MainPanics      \* Vec::swap out of bounds
            ELSE /\ LET r == MoveItemResult(direction, ActiveList, ActiveIdx)
                    IN  StateActiveClamped(r.vec, r.idx)
                 /\ UNCHANGED <<curr_tab, mode, pre>>
                 /\ Continue

\* KeyCode::Char('d') => handle_delete
StateDelete ==
    /\ StateArrives(Char(100))
    /\ IF ActiveList # <<>> /\ ActiveIdx >= Len(ActiveList)
       THEN MainPanics
       ELSE /\ StateActiveClamped(DeleteResult(ActiveList, ActiveIdx), ActiveIdx)
            /\ UNCHANGED <<curr_tab, mode, pre>>
            /\ Continue

\* KeyCode::Char('q') => bail!(BREAK), which main answers with `break`
StateSaveQuit ==
    /\ StateArrives(Char(113))
    /\ \E stdout_ok \in BOOLEAN, create_ok \in BOOLEAN :
         LeaveMain("BREAK", stdout_ok, create_ok)
    /\ pre' = Snap("SaveQuit")
    /\ UNCHANGED <<todos, dones, todos_idx, dones_idx, curr_tab, mode, file0>>

\* KeyCode::Char('Q') => bail!(NO_SAVE), which main answers with `return Ok(())`
StateNoSaveQuit ==
    /\ StateArrives(Char(81))
    /\ \E stdout_ok \in BOOLEAN : LeaveMain("NO_SAVE", stdout_ok, TRUE)
    /\ pre' = Snap("NoSaveQuit")
    /\ UNCHANGED <<todos, dones, todos_idx, dones_idx, curr_tab, mode, file0>>

\* The key code arrives while insert_mode is true.
StateArrivesInsert(code) ==
    /\ pc = "frame"
    /\ mode.m = "Insert"
    /\ code \in KeyCodes

\* handle_insert_mode, KeyCode::Enter
StateInsertEnter ==
    /\ StateArrivesInsert(Key("Enter"))
    /\ IF ~HasCurrentBuffer
       THEN MainPanics       \* get_mut(idx).unwrap()
       ELSE /\ mode' = Normal
            /\ UNCHANGED <<todos, dones, todos_idx, dones_idx, curr_tab, pre>>
            /\ Continue

\* handle_insert_mode, KeyCode::Esc: handle_delete, with no clamp after it
StateInsertEsc ==
    /\ StateArrivesInsert(Key("Esc"))
    /\ IF ~HasCurrentBuffer
       THEN MainPanics
       ELSE /\ SetActive(DeleteResult(ActiveList, ActiveIdx), ActiveIdx)
            /\ mode' = Normal
            /\ UNCHANGED <<curr_tab, pre>>
            /\ Continue

\* handle_insert_mode, KeyCode::Char(c)
StateInsertChar ==
    /\ \E c \in ItemChars :
         /\ StateArrivesInsert(Char(c))
         /\ IF ~HasCurrentBuffer
            THEN MainPanics
            ELSE /\ Len(At(ActiveList, ActiveIdx)) < MaxLen
                 /\ SetActive(VecSet(ActiveList, ActiveIdx,
                                     Append(At(ActiveList, ActiveIdx), c)), ActiveIdx)
                 /\ UNCHANGED <<curr_tab, mode, pre>>
                 /\ Continue

\* handle_insert_mode, KeyCode::Backspace
StateInsertBackspace ==
    /\ StateArrivesInsert(Key("Backspace"))
    /\ IF ~HasCurrentBuffer \/ RemoveLastPanics(At(ActiveList, ActiveIdx))
       THEN MainPanics
       ELSE /\ SetActive(VecSet(ActiveList, ActiveIdx,
                                DeleteCharResult(At(ActiveList, ActiveIdx))), ActiveIdx)
            /\ UNCHANGED <<curr_tab, mode, pre>>
            /\ Continue

NextMain ==
    \/ MainLoad
    \/ MainInitScr
    \/ MainDraw
    \/ MainTerminalIoFails
    \/ MainPollNone
    \/ StateIgnoredKey
    \/ StateEnter
    \/ StateTab
    \/ StateStartInsert
    \/ StateCursorMove
    \/ StateMoveItem
    \/ StateDelete
    \/ StateSaveQuit
    \/ StateNoSaveQuit
    \/ StateInsertEnter
    \/ StateInsertEsc
    \/ StateInsertChar
    \/ StateInsertBackspace

SpecMain == Init /\ [][NextMain]_vars

\* ------------------------------------------- persistence on its own

\* The items that are saved: the empty item, "q", an item with an accent and a
\* space, items that read like a prefixed line ("D:", "T:q"), items with a
\* carriage return at the start, at the end and alone, an item with a line feed.
PersistItems ==
    {<<>>, <<113>>, <<233, 32, 113>>, DONE_PREFIX, TODO_PREFIX \o <<113>>,
     <<13, 233>>, <<233, 13>>, <<13>>, <<113, 10, 113>>}

\* The documents that are saved: at most MaxLines items in the two lists.
PersistDocs ==
    UNION {[1..a -> PersistItems] \X [1..(n - a) -> PersistItems] :
              <<a, n>> \in {<<a, n>> \in (0..MaxLines) \X (0..MaxLines) : a <= n}}

\* The lines of the files that are loaded: a todo line, a done line, a todo
\* line ending in a carriage return, a line with neither prefix, a line that
\* is not valid UTF-8.
RawLines ==
    {TODO_PREFIX \o <<113>>, DONE_PREFIX \o <<233>>, TODO_PREFIX \o <<113, 13>>,
     <<120>>, <<InvalidByte>>}

RECURSIVE JoinLines(_)
JoinLines(ls) == IF ls = <<>> THEN <<>> ELSE Head(ls) \o LF \o JoinLines(Tail(ls))

\* Files of at most MaxLines such lines, the last one with or without its "\n".
RawFiles ==
    {RegularFile(JoinLines(ls)) : ls \in SeqsUpTo(RawLines, MaxLines)}
    \cup {RegularFile(SubSeq(JoinLines(ls), 1, Len(JoinLines(ls)) - 1)) :
             ls \in SeqsUpTo(RawLines, MaxLines) \ {<<>>}}

InitPersist ==
    /\ \/ /\ pc = "to_save"
          /\ \E doc \in PersistDocs : todos = doc[1] /\ dones = doc[2]
          /\ file \in {NoFile, RegularFile(DONE_PREFIX \o <<113>> \o LF \o <<120>>)}
       \/ /\ pc = "to_load"
          /\ file \in RawFiles \cup {NoFile, Directory}
          /\ todos = <<>>
          /\ dones = <<>>
    /\ file0 = file
    /\ todos_idx = 0
    /\ dones_idx = 0
    /\ curr_tab = "Todos"
    /\ mode = Normal
    /\ term = Cooked
    /\ pre = NoSnap

\* save_to_file(path, todos, dones), after which the lists are let go.
SaveDocument ==
    /\ pc = "to_save"
    /\ file' = save_to_file(file, todos, dones)
    /\ pre' = Snap("Saved")
    /\ todos' = <<>>
    /\ dones' = <<>>
    /\ pc' = "saved"
    /\ UNCHANGED <<todos_idx, dones_idx, curr_tab, mode, term, file0>>

\* get_todos_dones(path), of a file as found or of the file just saved.
LoadDocument ==
    /\ pc \in {"to_load", "saved"}
    /\ LET r == get_todos_dones(file)
       IN  /\ todos' = r.todos
           /\ dones' = r.dones
           /\ pc' = IF ~r.ok THEN "load_err"
                    ELSE IF pc = "saved" THEN "reloaded" ELSE "loaded"
    /\ UNCHANGED <<todos_idx, dones_idx, curr_tab, mode, file, term, file0, pre>>

NextPersist == SaveDocument \/ LoadDocument

SpecPersist == InitPersist /\ [][NextPersist]_vars

\* ------------------------------------------------ the layout split alone

\* The characters of the lines that are laid out: 'q' (one column wide),
\* U+4E16 (two columns) and U+0301, a combining accent (no column).
LayoutChars == {113, 19990, 769}

\* UnicodeWidthChar::width(c).unwrap_or(0)
CharWidth(c) == IF c = 19990 THEN 2 ELSE IF c = 769 THEN 0 ELSE 1

RECURSIVE SplitIndex(_, _, _, _)
\* The loop of split_to_fit from character i on, width being the columns of the
\* characters before it: how many characters come before the split.
SplitIndex(s, max_width, i, width) ==
    IF i > Len(s) THEN Len(s)
    ELSE LET cw == CharWidth(s[i])
         IN  IF width + cw > max_width THEN i - 1
             ELSE SplitIndex(s, max_width, i + 1, width + cw)

\* split_to_fit(s, max_width): the pair s.split_at(i), or (s, "")
split_to_fit(s, max_width) ==
    LET n == SplitIndex(s, max_width, 1, 0)
    IN  <<SubSeq(s, 1, n), SubSeq(s, n + 1, Len(s))>>

\* The call of split_to_fit that is checked: its arguments and, once it is
\* made, the pair it returned.  In this specification pre holds the call.
LayoutCall(s, max_width) ==
    [tag |-> "ToSplit", s |-> s, max_width |-> max_width, first |-> <<>>, rest |-> <<>>]

InitLayout ==
    /\ pc = "to_split"
    /\ \E s \in SeqsUpTo(LayoutChars, MaxLineLen), max_width \in 0..MaxWidth :
         pre = LayoutCall(s, max_width)
    /\ todos = <<>>
    /\ dones = <<>>
    /\ todos_idx = 0
    /\ dones_idx = 0
    /\ curr_tab = "Todos"
    /\ mode = Normal
    /\ file = NoFile
    /\ file0 = NoFile
    /\ term = Cooked

\* let (first, rest) = split_to_fit(s, max_width)
SplitToFit ==
    /\ pc = "to_split"
    /\ LET r == split_to_fit(pre.s, pre.max_width)
       IN  pre' = [pre EXCEPT !.tag = "Split", !.first = r[1], !.rest = r[2]]
    /\ pc' = "split"
    /\ UNCHANGED <<todos, dones, todos_idx, dones_idx, curr_tab, mode, file, term, file0>>

NextLayout == SplitToFit

SpecLayout == InitLayout /\ [][NextLayout]_vars

\* ------------------------------------------------ the drawing of a frame

\* a - b on an unsigned type whose largest value is max: with overflow checks
\* (a debug build) an underflow panics, without them (a release build) the
\* difference wraps.
UnsignedSub(a, b, max, overflow_checks) ==
    IF a >= b THEN [ok |-> TRUE, v |-> a - b]
    ELSE IF overflow_checks THEN [ok |-> FALSE, v |-> 0]
    ELSE [ok |-> TRUE, v |-> max - (b - a - 1)]

\* str::repeat(n) of a one-byte string allocates n bytes: a capacity above
\* isize::MAX panics.
RepeatPanics(n) == n > IsizeMax

\* The frame that is drawn: the size handle_term_size sampled, the build, and
\* the quantities computed so far.  In this specification pre holds it.
FrameCall(cols, rows, overflow_checks) ==
    [tag |-> "Frame", cols |-> cols, rows |-> rows, overflow_checks |-> overflow_checks,
     header_padding |-> 0, wrap_width |-> 0, status_row |-> 0]

InitFrame ==
    /\ pc = "write_screen"
    /\ \E cols \in 0..MaxCols, rows \in 0..MaxRows, overflow_checks \in BOOLEAN :
         pre = FrameCall(cols, rows, overflow_checks)
    /\ todos \in {<<>>, <<<<113>>>>}
    /\ dones \in {<<>>, <<<<233>>>>}
    /\ todos_idx = 0
    /\ dones_idx = 0
    /\ curr_tab = "Todos"
    /\ mode \in {Normal, Help}
    /\ file = NoFile
    /\ file0 = NoFile
    /\ term = [alt |-> TRUE, raw |-> TRUE]

\* The drawing call returns an error or panics: main_loop is left, and what
\* follows is as in LeaveMainLoop.
FrameEnds(how) ==
    /\ pc' = how
    /\ \E stdout_ok \in BOOLEAN : term' = ScreenGuardDrop(term, stdout_ok)
    /\ UNCHANGED <<todos, dones, todos_idx, dones_idx, curr_tab, mode, file, file0, pre>>

\* A write to stdout fails in the call that draws at pc.
FrameIoFails ==
    /\ pc \in {"write_screen", "write_todos_dones", "write_status"}
    /\ FrameEnds("exit_err")

\* App::write_screen in Help mode: write_help_screen
WriteHelpScreen ==
    /\ pc = "write_screen"
    /\ mode.m = "Help"
    /\ IF RepeatPanics(pre.cols)
       THEN FrameEnds("exit_panic")
       ELSE /\ pc' = "write_status"
            /\ UNCHANGED <<todos, dones, todos_idx, dones_idx, curr_tab, mode, file,
                           term, file0, pre>>

\* App::write_header: " ".repeat(col_mid as usize - 4)
WriteHeader ==
    /\ pc = "write_screen"
    /\ mode.m # "Help"
    /\ LET col_mid == pre.cols \div 2
           padding == UnsignedSub(col_mid, 4, UsizeMax, pre.overflow_checks)
       IN  IF ~padding.ok \/ RepeatPanics(padding.v)
           THEN FrameEnds("exit_panic")
           ELSE /\ pre' = [pre EXCEPT !.header_padding = padding.v]
                /\ pc' = "write_todos_dones"
                /\ UNCHANGED <<todos, dones, todos_idx, dones_idx, curr_tab, mode, file,
                               term, file0>>

\* App::write_todos_dones: for each todo item, split_to_fit(&full_line,
\* col_mid as usize - 1); the done items are split at col_mid.
WriteTodosDones ==
    /\ pc = "write_todos_dones"
    /\ LET col_mid == pre.cols \div 2
           width == UnsignedSub(col_mid, 1, UsizeMax, pre.overflow_checks)
       IN  IF todos = <<>>
           THEN /\ pc' = "write_status"
                /\ UNCHANGED <<todos, dones, todos_idx, dones_idx, curr_tab, mode, file,
                               term, file0, pre>>
           ELSE IF ~width.ok
                THEN FrameEnds("exit_panic")
                ELSE /\ pre' = [pre EXCEPT !.wrap_width = width.v]
                     /\ pc' = "write_status"
                     /\ UNCHANGED <<todos, dones, todos_idx, dones_idx, curr_tab, mode,
                                    file, term, file0>>

\* App::write_status: goto(0, rows - 1)
WriteStatus ==
    /\ pc = "write_status"
    /\ LET row == UnsignedSub(pre.rows, 1, U16Max, pre.overflow_checks)
       IN  IF ~row.ok
           THEN FrameEnds("exit_panic")
           ELSE /\ pre' = [pre EXCEPT !.status_row = row.v]
                /\ pc' = "drawn"
                /\ UNCHANGED <<todos, dones, todos_idx, dones_idx, curr_tab, mode, file,
                               term, file0>>

NextFrame ==
    \/ FrameIoFails
    \/ WriteHelpScreen
    \/ WriteHeader
    \/ WriteTodosDones
    \/ WriteStatus

SpecFrame == InitFrame /\ [][NextFrame]_vars

\* ---------------------------------------------------------------- claims

InRange(idx, len) == 0 <= idx /\ idx <= Max(len - 1, 0)

\* C1: whenever a frame is drawn (the clamp pass of this turn of the loop has
\* run), each list's cursor is in [0, len-1], and is 0 when the list is empty.
C1_CursorsClampedAtFrame ==
    pc = "frame" => InRange(todos_idx, Len(todos)) /\ InRange(dones_idx, Len(dones))

\* A frame drawn after transfers emptied the todo list and moves put the
\* cursor of the two-item done list on its last item.
C1_Witness ==
    /\ pc = "frame"
    /\ todos = <<>> /\ todos_idx = 0
    /\ Len(dones) = 2 /\ dones_idx = 1
    /\ file0 = NoFile

\* C2: after Insert(Above) or Insert(Below), any Char and DeleteChar edits and
\* then Cancel, both lists are what they were before the Insert and the mode is
\* Normal.
C2_InsertNewCancelIsNoOp ==
    pre.tag = "CancelNew" =>
        /\ todos = pre.todos
        /\ dones = pre.dones
        /\ mode = Normal

\* A cancel after two edits of an item inserted into a list that held one.
C2_Witness ==
    /\ pre.tag = "CancelNew"
    /\ pre.edits = 2
    /\ Len(IF pre.curr_tab = "Todos" THEN pre.todos ELSE pre.dones) >= 1
    /\ pc = "top"

\* C3: after Edit on a non-empty active list, any Char and DeleteChar edits and
\* then Cancel, the item at the cursor and every other item, both cursors and
\* the active tab are what they were before the Edit, and the mode is Normal.
C3_EditCancelRestores ==
    pre.tag = "CancelEdit" =>
        /\ todos = pre.todos
        /\ dones = pre.dones
        /\ todos_idx = pre.todos_idx
        /\ dones_idx = pre.dones_idx
        /\ curr_tab = pre.curr_tab
        /\ mode = Normal

\* A cancel after two edits of a non-empty item.
C3_Witness ==
    /\ pre.tag = "CancelEdit"
    /\ pre.edits = 2
    /\ At(ActiveList, ActiveIdx) # <<>>
    /\ pc = "top"

PreActiveList == IF pre.curr_tab = "Todos" THEN pre.todos ELSE pre.dones
PreActiveIdx == IF pre.curr_tab = "Todos" THEN pre.todos_idx ELSE pre.dones_idx
PreInactiveList == IF pre.curr_tab = "Todos" THEN pre.dones ELSE pre.todos
InactiveList == IF curr_tab = "Todos" THEN dones ELSE todos

SameListsAndCursors ==
    /\ todos = pre.todos
    /\ dones = pre.dones
    /\ todos_idx = pre.todos_idx
    /\ dones_idx = pre.dones_idx

\* C4: with the cursor at i and an item at i+1, MoveItem(Down) swaps items i and
\* i+1, leaves the others, and puts the cursor at i+1; a MoveItem(Up) right after
\* gives back the original order with the cursor at i.  MoveItem on an empty
\* list, Up at index 0 and Down at the last index change no list and no cursor.
C4_MoveItemIsAdjacentSwap ==
    LET i == PreActiveIdx
        n == Len(PreActiveList)
    IN  /\ (pre.tag = "MoveItemDown" /\ i + 1 < n) =>
              /\ Len(ActiveList) = n
              /\ At(ActiveList, i) = At(PreActiveList, i + 1)
              /\ At(ActiveList, i + 1) = At(PreActiveList, i)
              /\ \A k \in 0..(n - 1) : k \notin {i, i + 1} => At(ActiveList, k) = At(PreActiveList, k)
              /\ ActiveIdx = i + 1
              /\ InactiveList = PreInactiveList
        /\ (pre.tag = "MoveItemDownUp" /\ i + 1 < n) => SameListsAndCursors
        /\ (pre.tag = "MoveItemDown" /\ (n = 0 \/ i = n - 1)) => SameListsAndCursors
        /\ (pre.tag = "MoveItemUp" /\ (n = 0 \/ i = 0)) => SameListsAndCursors

\* The first of two different todo items was moved down and then up again.
C4_Witness ==
    /\ pre.tag = "MoveItemDownUp"
    /\ pre.curr_tab = "Todos"
    /\ pre.todos_idx = 0
    /\ Len(pre.todos) = 2
    /\ pre.todos[1] # pre.todos[2]

NewlineFree(item) == \A k \in 1..Len(item) : item[k] # 10
NoLineEnding(item) == NewlineFree(item) /\ (item = <<>> \/ item[Len(item)] # 13)
AllItems(P(_), t, d) ==
    /\ \A k \in 1..Len(t) : P(t[k])
    /\ \A k \in 1..Len(d) : P(d[k])

Reloaded == pc = "reloaded" /\ todos = pre.todos /\ dones = pre.dones

\* C5 as stated: for any todo list and done list of items without a line feed,
\* get_todos_dones of the path save_to_file wrote succeeds and yields the saved
\* lists: same items, same order, same text, same list.
C5_SaveLoadRoundTrip ==
    (pre.tag = "Saved" /\ pc # "saved" /\ AllItems(NewlineFree, pre.todos, pre.dones))
        => Reloaded

\* C5 amended: the same for items that hold no line feed and do not end in a
\* carriage return.
C5_SaveLoadRoundTripNoLineEnding ==
    (pre.tag = "Saved" /\ pc # "saved" /\ AllItems(NoLineEnding, pre.todos, pre.dones))
        => Reloaded

\* Reloaded: a todo item that reads like a done line and a done item with a
\* carriage return inside, saved over a file that held something else.
C5_Witness ==
    /\ pc = "reloaded"
    /\ pre.tag = "Saved"
    /\ todos = <<DONE_PREFIX>>
    /\ dones = << <<13, 233>> >>
    /\ file0.kind = "file"

IsItemLine(l) == l.ok /\ (IsPrefix(TODO_PREFIX, l.text) \/ IsPrefix(DONE_PREFIX, l.text))
IsTodoLine(l) == l.ok /\ IsPrefix(TODO_PREFIX, l.text)
IsDoneLine(l) == l.ok /\ ~IsPrefix(TODO_PREFIX, l.text) /\ IsPrefix(DONE_PREFIX, l.text)
Stripped(ls, p) == [k \in 1..Len(ls) |-> StripPrefix(p, ls[k].text)]

\* C9: get_todos_dones succeeds only if every line of the file can be read and
\* starts with the todo or the done prefix, and then returns exactly the lines
\* of each kind, in file order, without the prefix.
C9_LoadIsAllOrNothing ==
    pc = "loaded" =>
        LET ls == ReadLines(file0.data)
        IN  /\ \A k \in 1..Len(ls) : IsItemLine(ls[k])
            /\ todos = Stripped(SelectSeq(ls, IsTodoLine), TODO_PREFIX)
            /\ dones = Stripped(SelectSeq(ls, IsDoneLine), DONE_PREFIX)

\* The file that holds exactly the todo items, then the done items, each line
\* with its prefix.
Rewritten(t, d) == RegularFile(WriteLines(t, TODO_PREFIX) \o WriteLines(d, DONE_PREFIX))

\* C6: when the program exits via SaveQuit from Normal mode and the document
\* file already existed, the file afterwards holds exactly the current todo
\* items in order with the todo prefix, then the current done items in order
\* with the done prefix, and nothing of its previous content; with both lists
\* empty the file ends up with no item lines.
C6_SaveQuitRewritesFile ==
    (pc = "exit_ok" /\ pre.tag = "SaveQuit" /\ file0.kind = "file")
        => file = Rewritten(todos, dones)

C8_TerminalRestoredAtExit ==
    pc \in {"exit_ok", "exit_err"} => term = Cooked

\* C10: in Normal mode SwitchTab(Left) makes Todos the active tab and
\* SwitchTab(Right) makes Dones the active tab, whatever tab was active before;
\* Tab toggles the active tab; none of the three changes a cursor or a list.
C10_SwitchTabIsDirectional ==
    /\ pre.tag = "Left" => curr_tab = "Todos"
    /\ pre.tag = "Right" => curr_tab = "Dones"
    /\ pre.tag = "Toggle" => curr_tab = toggle(pre.curr_tab)
    /\ pre.tag \in {"Left", "Right", "Toggle"} => SameListsAndCursors

\* C11: Enter in Normal mode on an empty active list changes nothing;
\* otherwise the item at the active cursor leaves the active list and becomes
\* the last item of the other list, every other item of both lists keeps its
\* place in the order, and the other list's cursor is unchanged.
C11_EnterTransfersToEnd ==
    pre.tag = "Enter" =>
        LET i == PreActiveIdx
            n == Len(PreActiveList)
            m == Len(PreInactiveList)
        IN  /\ curr_tab = pre.curr_tab
            /\ n = 0 => SameListsAndCursors
            /\ n > 0 =>
                  /\ Len(ActiveList) = n - 1
                  /\ \A k \in 0..(n - 2) :
                        At(ActiveList, k) = At(PreActiveList, IF k < i THEN k ELSE k + 1)
                  /\ Len(InactiveList) = m + 1
                  /\ \A k \in 0..(m - 1) : At(InactiveList, k) = At(PreInactiveList, k)
                  /\ At(InactiveList, m) = At(PreActiveList, i)
                  /\ (IF curr_tab = "Todos" THEN dones_idx = pre.dones_idx
                      ELSE todos_idx = pre.todos_idx)

\* The only done item was transferred to a todo list that held another item.
C11_Witness ==
    /\ pre.tag = "Enter"
    /\ pre.curr_tab = "Dones"
    /\ Len(pre.dones) = 1
    /\ Len(pre.todos) = 1
    /\ pre.todos[1] # pre.dones[1]
    /\ Len(todos) = 2
    /\ pc = "top"

\* The keys the key table gives to SaveQuit and NoSaveQuit: 'q', 'Q', Ctrl+c.
QuitKeys == {Char(113), Char(81), Ctrl(Char(99))}

\* C12: while the mode is Help, a SaveQuit or NoSaveQuit key ('q', 'Q', Ctrl+c)
\* changes the mode to Normal without ending the program and without writing
\* the file, every other key leaves the mode Help, and no key changes a list,
\* a cursor or the active tab.
C12_HelpIsAnEscapeHatch ==
    [][(pc = "frame" /\ mode.m = "Help" /\ pre'.key # NoKey) =>
          /\ pc' = "top"
          /\ file' = file
          /\ mode' = (IF pre'.key \in QuitKeys THEN Normal ELSE Help)
          /\ UNCHANGED <<todos, dones, todos_idx, dones_idx, curr_tab>>]_vars

\* How many times each item occurs in a sequence of items.
ItemBag(items) ==
    [x \in {items[k] : k \in DOMAIN items} |->
        Cardinality({k \in DOMAIN items : items[k] = x})]

\* The actions that only move an item, a cursor or the view.
ConservingTags ==
    {"Enter", "MoveItemDown", "MoveItemUp", "MoveItemDownUp", "MoveCursorUp",
     "MoveCursorDown", "GotoBegin", "GotoEnd", "Left", "Right", "Toggle",
     "ShowHelp", "ShowNumber", "HelpQuit", "HelpOther", "SaveQuit", "NoSaveQuit"}

\* C13: the items of the two lists taken together change only by an Insert
\* (one item more: the one at the cursor, empty until it is edited), a Delete
\* (the item that was at the cursor less), an Insert-New Cancel (the inserted
\* item less) or an insert-mode edit of the item at the cursor; Enter, MoveItem,
\* cursor moves, goto and tab switches leave the same items, each once.
C13_ItemsAreConserved ==
    LET now == ItemBag(todos \o dones)
        before == ItemBag(pre.todos \o pre.dones)
    IN  /\ pre.tag \in ConservingTags => now = before
        /\ pre.tag \in {"InsertAbove", "InsertBelow"} =>
              /\ HasCurrentBuffer
              /\ now = ItemBag(pre.todos \o pre.dones \o <<At(ActiveList, ActiveIdx)>>)
              /\ pre.edits = 0 => At(ActiveList, ActiveIdx) = <<>>
        /\ pre.tag = "Delete" =>
              IF PreActiveList = <<>> THEN now = before
              ELSE ItemBag(todos \o dones \o <<At(PreActiveList, PreActiveIdx)>>) = before
        /\ pre.tag \in {"CancelNew", "CancelEdit"} => now = before
        /\ pre.tag = "Edit" =>
              IF mode.m = "Insert"
              THEN ItemBag(todos \o dones \o <<At(PreActiveList, PreActiveIdx)>>)
                     = ItemBag(pre.todos \o pre.dones \o <<At(ActiveList, ActiveIdx)>>)
              ELSE now = before

\* The second of two different done items was moved up.
C13_Witness ==
    /\ pre.tag = "MoveItemUp"
    /\ pre.curr_tab = "Dones"
    /\ pre.dones_idx = 1
    /\ Len(pre.dones) = 2
    /\ pre.dones[1] # pre.dones[2]
    /\ dones_idx = 0

\* C14: if at SaveQuit both lists are empty and no file exists at the document
\* path, no file is created: a session that starts with no file and ends via
\* SaveQuit with both lists empty leaves the path absent.
C14_NoEmptyFileIsCreated ==
    (pre.tag = "SaveQuit" /\ todos = <<>> /\ dones = <<>> /\ file0.kind = "absent")
        => file.kind = "absent"

\* SaveQuit on the done tab, with nothing in the lists and no file at the path.
C14_Witness ==
    /\ pre.tag = "SaveQuit"
    /\ pc = "exit_ok"
    /\ curr_tab = "Dones"
    /\ todos = <<>>
    /\ dones = <<>>
    /\ file0 = NoFile
    /\ file = NoFile

\* The decoder of the mode maps the key to no action.
Unrecognized(md, raw) ==
    IF md.m = "Insert" THEN InsertActionTryFrom(get_key_event(raw)) = InsAct("Err", 0)
    ELSE ActionTryFrom(get_key_event(raw)) = NoAction

\* C15: a key the decoder of the current mode does not recognize raises no
\* error and does not end the loop, and leaves lists, cursors, active tab and
\* mode (and file and terminal) exactly as they were, as a poll that times out
\* does.
C15_UnrecognizedKeyIsIgnored ==
    [][(pc = "frame" /\ pre'.key # NoKey /\ Unrecognized(mode, pre'.key)) =>
          /\ pc' = "top"
          /\ UNCHANGED <<todos, dones, todos_idx, dones_idx, curr_tab, mode, file, term>>]_vars

\* F1 was pressed while an item was being edited.
C15_Witness ==
    /\ pre.key = Key("F1")
    /\ pre.tag = "Edit"
    /\ mode.m = "Insert"
    /\ mode.origin = "Edit"
    /\ pc = "top"

\* C19: in Normal mode, for the key event as it goes from the input poll to
\* the dispatcher, Up or Down with Shift is handled as MoveItem in that
\* direction and never as MoveCursor, Up or Down without Shift as MoveCursor
\* and never as MoveItem, and Left or Right with Shift switches no tab.
C19_ShiftDecidesArrows ==
    [][(pc = "frame" /\ mode.m = "Normal" /\ pre'.key # NoKey) =>
          LET key == pre'.key
              handled == pre'.tag
          IN  /\ (key.k = "Down" /\ key.shift) => handled = "MoveItemDown"
              /\ (key.k = "Up" /\ key.shift) => handled \in {"MoveItemUp", "MoveItemDownUp"}
              /\ (key.k = "Down" /\ ~key.shift) => handled = "MoveCursorDown"
              /\ (key.k = "Up" /\ ~key.shift) => handled = "MoveCursorUp"
              /\ (key.k \in {"Left", "Right"} /\ key.shift) =>
                    /\ handled \notin {"Left", "Right", "Toggle"}
                    /\ curr_tab' = curr_tab]_vars

\* C20: Insert in Normal mode with the clamped cursor c on a list of length n
\* puts a new empty item at index min(c, n) (Above) or min(c + 1, n) (Below):
\* the list has n + 1 items, the items it had keep their order, the active
\* cursor is the index of the new item, the other list and its cursor are
\* unchanged, and the mode is Insert(New).
C20_InsertPlacesEmptyItem ==
    (pre.tag \in {"InsertAbove", "InsertBelow"} /\ pre.edits = 0) =>
        LET c == PreActiveIdx
            n == Len(PreActiveList)
            at == IF pre.tag = "InsertAbove" THEN Min(c, n) ELSE Min(c + 1, n)
        IN  /\ curr_tab = pre.curr_tab
            /\ Len(ActiveList) = n + 1
            /\ ActiveIdx = at
            /\ At(ActiveList, at) = <<>>
            /\ \A k \in 0..(n - 1) :
                  At(ActiveList, IF k < at THEN k ELSE k + 1) = At(PreActiveList, k)
            /\ InactiveList = PreInactiveList
            /\ (IF curr_tab = "Todos" THEN dones_idx = pre.dones_idx
                ELSE todos_idx = pre.todos_idx)
            /\ mode = InsertNew

\* Insert(Below) with the cursor on the only todo item: the new item is second.
C20_Witness ==
    /\ pre.tag = "InsertBelow"
    /\ pre.edits = 0
    /\ pre.curr_tab = "Todos"
    /\ Len(pre.todos) = 1
    /\ pre.todos[1] # <<>>
    /\ todos_idx = 1
    /\ pc = "top"

RECURSIVE DisplayWidth(_)
\* The columns a piece of text takes.
DisplayWidth(seg) == IF seg = <<>> THEN 0 ELSE CharWidth(Head(seg)) + DisplayWidth(Tail(seg))

\* The segments the split produced: the first one and, unless it is empty, the
\* continuation.
Segments == <<pre.first>> \o (IF pre.rest = <<>> THEN <<>> ELSE <<pre.rest>>)

\* C16: for every string s and every max_width w >= 1, the first segment and
\* the continuation segments the split produces, concatenated, are s; every
\* segment is at most w columns wide, except a one-character segment whose
\* character is wider than w; when s fits in w there is no continuation.
C16_WrapIsLosslessAndBounded ==
    (pc = "split" /\ pre.max_width >= 1) =>
        /\ pre.first \o pre.rest = pre.s
        /\ \A k \in 1..Len(Segments) :
              \/ DisplayWidth(Segments[k]) <= pre.max_width
              \/ Len(Segments[k]) = 1 /\ pre.max_width < CharWidth(Segments[k][1])
        /\ DisplayWidth(pre.s) <= pre.max_width => pre.rest = <<>>

\* C17: when max_width is smaller than the width of the first character of a
\* non-empty string (max_width = 0 included), the split yields a first segment
\* of exactly one character, not an empty one, so that the remainder is shorter
\* than the string.
C17_SplitMakesProgress ==
    (pc = "split" /\ pre.s # <<>> /\ pre.max_width < CharWidth(pre.s[1])) =>
        /\ Len(pre.first) = 1
        /\ Len(pre.rest) < Len(pre.s)

\* C18: in a session that starts with no file, the load yields two empty lists;
\* after Insert(Below), the characters of the text and the commit, Todos holds
\* the text alone and Dones is empty; after the transfer Todos is empty and
\* Dones holds the text alone; after SaveQuit the file is exactly one line, the
\* done prefix followed by the text.
C18_EndToEndScenario ==
    /\ pc = "run" => todos = <<>> /\ dones = <<>>
    /\ pre.tag = "Commit" =>
          \E t \in ScenarioTexts : todos = <<t>> /\ dones = <<>>
    /\ pre.tag = "Enter" =>
          \E t \in ScenarioTexts :
              pre.todos = <<t>> /\ pre.dones = <<>> /\ todos = <<>> /\ dones = <<t>>
    /\ (pre.tag = "SaveQuit" /\ pc = "exit_ok") =>
          \E t \in ScenarioTexts :
              dones = <<t>> /\ todos = <<>> /\ file = RegularFile(DONE_PREFIX \o t \o LF)

C18_Witness ==
    /\ pre.tag = "SaveQuit"
    /\ pc = "exit_ok"
    /\ dones = <<BuyMilk>>
    /\ file = RegularFile(DONE_PREFIX \o BuyMilk \o LF)

\* C21: while the mode is Insert (New or Edit) the active list is non-empty and
\* the active cursor is the index of an item of it, so the lookup of the buffer
\* never fails; Edit on an empty active list changes nothing and leaves the
\* mode Normal; while the mode is Insert(New) the inserted item is at the
\* cursor: without it the active list is what it was before the Insert.
C21_InsertModeHasItsBuffer ==
    /\ mode.m = "Insert" =>
          /\ ActiveList # <<>>
          /\ 0 <= ActiveIdx /\ ActiveIdx < Len(ActiveList)
    /\ (pre.tag = "Edit" /\ PreActiveList = <<>>) =>
          /\ mode = Normal
          /\ SameListsAndCursors
          /\ curr_tab = pre.curr_tab
    /\ (mode.m = "Insert" /\ mode.origin = "New") =>
          /\ pre.tag \in {"InsertAbove", "InsertBelow"}
          /\ curr_tab = pre.curr_tab
          /\ InactiveList = PreInactiveList
          /\ ActiveIdx < Len(ActiveList)
          /\ VecRemove(ActiveList, ActiveIdx) = PreActiveList

\* An item inserted between two edits of it, one list holding an item already.
C21_Witness ==
    /\ mode.m = "Insert"
    /\ mode.origin = "New"
    /\ pre.edits = 2
    /\ Len(ActiveList) = 2
    /\ pc = "frame"

\* Edit was pressed on an empty list.
C21_WitnessEditOnEmpty ==
    /\ pre.tag = "Edit"
    /\ PreActiveList = <<>>
    /\ pc = "top"

\* The item at the active cursor.
CurrentItem == At(ActiveList, ActiveIdx)

\* The step replaces the item at the active cursor by item and changes no other
\* item, no cursor, neither the tab nor the mode.
OnlyCurrentItemBecomes(item) ==
    /\ ActiveIdx < Len(ActiveList)
    /\ todos' = IF curr_tab = "Todos" THEN VecSet(todos, todos_idx, item) ELSE todos
    /\ dones' = IF curr_tab = "Dones" THEN VecSet(dones, dones_idx, item) ELSE dones
    /\ UNCHANGED <<todos_idx, dones_idx, curr_tab, mode>>

\* C22: in Insert mode Char(c) makes the item at the cursor its old text
\* followed by c; DeleteChar on a non-empty item removes exactly its last
\* character, whatever its encoded length, and keeps the ones before it;
\* DeleteChar on an empty item changes nothing; neither fails (no handling of a
\* key in Insert mode ends in a panic) nor touches another item.
C22_TextEditsActOnTheEnd ==
    [][(pc = "frame" /\ mode.m = "Insert") =>
          /\ pc' # "exit_panic"
          /\ (pc' = "top" /\ pre'.key.k = "Char") =>
                OnlyCurrentItemBecomes(Append(CurrentItem, pre'.key.c))
          /\ (pc' = "top" /\ pre'.key = Key("Backspace")) =>
                OnlyCurrentItemBecomes(
                    IF CurrentItem = <<>> THEN <<>>
                    ELSE SubSeq(CurrentItem, 1, Len(CurrentItem) - 1))]_vars

\* C23: Delete in Normal mode changes nothing on an empty active list;
\* otherwise it removes exactly the item at the active cursor, the other items
\* keeping their order, and leaves the other list and both cursors as they
\* were; the clamp pass that follows puts the active cursor at
\* min(old cursor, new length - 1), 0 if the list became empty.
C23_DeleteRemovesItemAtCursor ==
    [][/\ (pc = "frame" /\ pre'.tag = "Delete") =>
             /\ pc' = "top"
             /\ UNCHANGED <<todos_idx, dones_idx, curr_tab, mode, file>>
             /\ IF ActiveList = <<>>
                THEN UNCHANGED <<todos, dones>>
                ELSE /\ ActiveIdx < Len(ActiveList)
                     /\ Len(ActiveList') = Len(ActiveList) - 1
                     /\ \A k \in 1..Len(ActiveList') :
                           ActiveList'[k] = ActiveList[IF k <= ActiveIdx THEN k ELSE k + 1]
                     /\ InactiveList' = InactiveList
       /\ (pc = "top" /\ pre.tag = "Delete") =>
             /\ ActiveIdx' = Min(PreActiveIdx, Max(Len(ActiveList) - 1, 0))
             /\ UNCHANGED <<todos, dones, curr_tab>>
             /\ (IF curr_tab = "Todos" THEN dones_idx' = pre.dones_idx
                 ELSE todos_idx' = pre.todos_idx)]_vars

\* The last of two items was deleted: the clamp pass has a cursor to move.
C23_Witness ==
    /\ pre.tag = "Delete"
    /\ pc = "top"
    /\ Len(PreActiveList) = 2
    /\ PreActiveIdx = 1
    /\ ActiveList = <<PreActiveList[1]>>

\* C24: every Normal-mode action is dispatched with both cursors clamped, and
\* the clamp pass is the next step after each key; so the index Delete and
\* Enter use to remove an item of a non-empty list is below its length, the
\* increment of MoveCursor(Down) does not overflow, also when the action before
\* was GotoEnd and stored the maximum value, and no Normal-mode action panics.
C24_ActionsSeeClampedCursors ==
    [][(pc = "frame" /\ mode.m = "Normal") =>
          /\ InRange(todos_idx, Len(todos))
          /\ InRange(dones_idx, Len(dones))
          /\ ActiveIdx + 1 <= UsizeMax
          /\ pc' # "frame"
          /\ pc' = "exit_panic" => pre'.tag = "SaveQuit"
          /\ (pre'.tag \in {"Delete", "Enter"} /\ ActiveList # <<>>) =>
                ActiveIdx < Len(ActiveList)]_vars

\* GotoEnd has stored the maximum value in the cursor of a list of two items,
\* and the clamp pass comes next.
C24_Witness ==
    /\ pc = "top"
    /\ pre.tag = "GotoEnd"
    /\ ActiveIdx = UsizeMax
    /\ Len(ActiveList) = 2

\* C25: GotoEnd and the clamp pass after it leave the cursor of the active list
\* at len - 1 (0 if the list is empty), GotoBegin and the clamp pass leave it at
\* 0; neither changes the cursor of the other list, the active tab or an item
\* of either list.
C25_GotoEndAndBegin ==
    [][/\ (pc = "frame" /\ pre'.tag \in {"GotoBegin", "GotoEnd"}) =>
             /\ pc' = "top"
             /\ UNCHANGED <<todos, dones, curr_tab, mode>>
             /\ (IF curr_tab = "Todos" THEN dones_idx' = dones_idx
                 ELSE todos_idx' = todos_idx)
       /\ (pc = "top" /\ pre.tag \in {"GotoBegin", "GotoEnd"}) =>
             /\ pc' = "frame"
             /\ ActiveIdx' = (IF pre.tag = "GotoEnd" THEN Max(Len(ActiveList) - 1, 0) ELSE 0)
             /\ UNCHANGED <<todos, dones, curr_tab, mode>>
             /\ (IF curr_tab = "Todos" THEN dones_idx' = pre.dones_idx
                 ELSE todos_idx' = pre.todos_idx)]_vars

\* GotoEnd was pressed with the cursor on the first of two items.
C25_Witness ==
    /\ pc = "top"
    /\ pre.tag = "GotoEnd"
    /\ PreActiveIdx = 0
    /\ Len(ActiveList) = 2
    /\ ActiveIdx = UsizeMax
    /\ curr_tab = "Dones"

\* C26: while the mode is Insert no key event ends the program, changes the
\* active tab, moves a cursor, or changes the inactive list or an item other
\* than the one at the active cursor; only Enter and Esc leave Insert mode, and
\* both lead to Normal.  (A step to exit_err is a failure of the terminal, not
\* a key.)
C26_InsertModeConfinesInput ==
    [][(pc = "frame" /\ mode.m = "Insert" /\ pc' # "exit_err") =>
          /\ pc' = "top"
          /\ file' = file
          /\ UNCHANGED <<curr_tab, todos_idx, dones_idx>>
          /\ InactiveList' = InactiveList
          /\ \/ ActiveList' = VecRemove(ActiveList, ActiveIdx)
             \/ /\ Len(ActiveList') = Len(ActiveList)
                /\ VecRemove(ActiveList', ActiveIdx) = VecRemove(ActiveList, ActiveIdx)
          /\ mode' # mode =>
                /\ pre'.key \in {Key("Enter"), Key("Esc")}
                /\ mode' = Normal]_vars

\* C27: for every terminal size, columns >= 0 and rows >= 0, the header padding
\* is columns/2 - 4, the wrap width of the left pane is columns/2 - 1 and the
\* status row is rows - 1, each of them a value that is not negative, so that
\* drawing the frame does not fail (no panic) on a narrow or empty terminal.
C27_LayoutNeverUnderflows ==
    /\ pc # "exit_panic"
    /\ (pc \in {"write_todos_dones", "write_status", "drawn"} /\ mode.m # "Help") =>
          /\ pre.header_padding = pre.cols \div 2 - 4
          /\ pre.header_padding >= 0
    /\ (pc \in {"write_status", "drawn"} /\ mode.m # "Help" /\ todos # <<>>) =>
          /\ pre.wrap_width = pre.cols \div 2 - 1
          /\ pre.wrap_width >= 0
    /\ pc = "drawn" =>
          /\ pre.status_row = pre.rows - 1
          /\ pre.status_row >= 0

====
